---------------------------- MODULE Spec2Model ----------------------------
(***************************************************************************)
(* A model of BitBrush (src/bitbrush.py): the constructor, the byte-wise   *)
(* mirror lookup table, the four pattern generators on the python and the  *)
(* numpy backend, mirror_mask and visualize.                               *)
(*                                                                         *)
(* Python integers are unbounded; the model keeps every value below 2^31   *)
(* by bounding the width and the inputs, so no operation of the model      *)
(* wraps.  For the same reason the numpy uint64 arithmetic (modulo 2^64)   *)
(* never wraps within the model's widths.                                  *)
(***************************************************************************)
EXTENDS Integers, Sequences, FiniteSets

(***************************************************************************)
(* Bounds of the model.                                                    *)
(***************************************************************************)
\* Largest width of the specification of whole calls (SpecCalls).
MaxWidth == 17
\* Arguments of mirror_mask and visualize reach MaxHigh bit positions above
\* the width, so that they carry bits the mask must drop.
MaxHigh == 8
\* Every argument below 2^MaxDenseBits is tried (when it fits the positions).
MaxDenseBits == 9
\* Largest width of the specification of interleaved generators (Spec).
MaxGenWidth == 4
\* Number of generator objects alive at once in Spec.
NumGens == 2
\* Largest step passed to toggle_sparse.
MaxStep == 3

VARIABLES
    pc,            \* "new": not constructed, "ready": constructed, "failed": __init__ raised
    exc,           \* the exception __init__ raised, "" when none
    width,         \* self.width
    mask,          \* self.mask
    backend,       \* self.backend
    _mirror_lut,   \* self._mirror_lut
    gens,          \* the generator objects (and arrays) the caller holds
    call           \* the last whole call: operation, argument, result

vars == <<pc, exc, width, mask, backend, _mirror_lut, gens, call>>

engine == <<pc, exc, width, mask, backend, _mirror_lut>>

(***************************************************************************)
(* Python's integer operators on non-negative integers.                    *)
(***************************************************************************)
Shl(a, n) == a * 2^n

Shr(a, n) == a \div 2^n

RECURSIVE BitAnd(_, _)
BitAnd(a, b) ==
    IF a = 0 \/ b = 0 THEN 0
    ELSE ((a % 2) * (b % 2)) + 2 * BitAnd(a \div 2, b \div 2)

RECURSIVE BitOr(_, _)
BitOr(a, b) ==
    IF a = 0 THEN b
    ELSE IF b = 0 THEN a
    ELSE (IF a % 2 = 1 \/ b % 2 = 1 THEN 1 ELSE 0) + 2 * BitOr(a \div 2, b \div 2)

RECURSIVE BitXor(_, _)
BitXor(a, b) ==
    IF a = 0 THEN b
    ELSE IF b = 0 THEN a
    ELSE ((a + b) % 2) + 2 * BitXor(a \div 2, b \div 2)

\* Bit i of a (0 or 1).
Bit(a, i) == Shr(a, i) % 2

(***************************************************************************)
(* _build_mirror_lut: the table of the 256 bit-reversed bytes.             *)
(***************************************************************************)
\* The inner loop: n iterations left, working copy b, accumulated rev.
RECURSIVE ReverseLoop(_, _, _)
ReverseLoop(n, b, rev) ==
    IF n = 0 THEN rev
    ELSE ReverseLoop(n - 1, Shr(b, 1), BitOr(Shl(rev, 1), BitAnd(b, 1)))

\* A table whose inner loop runs one iteration short.
ShortLut == [i \in 0..255 |-> ReverseLoop(7, i, 0)]

_build_mirror_lut == [i \in 0..255 |-> ReverseLoop(8, i, 0)]

(***************************************************************************)
(* __init__(width, backend).  No argument is validated: the only failure   *)
(* is the ValueError of 1 << width for a negative width, raised after      *)
(* self.width is assigned.  The caller gets an object only when pc is      *)
(* "ready".                                                                *)
(***************************************************************************)
Backends == {"python", "numpy"}

NoLut == [i \in {} |-> 0]

Construct(w, b) ==
    /\ pc = "new"
    /\ width' = w
    /\ IF w < 0
       THEN /\ pc' = "failed"
            /\ exc' = "ValueError"
            /\ UNCHANGED <<mask, backend, _mirror_lut>>
       ELSE /\ pc' = "ready"
            /\ exc' = ""
            /\ mask' = Shl(1, w) - 1
            /\ backend' = b
            /\ _mirror_lut' = _build_mirror_lut
    /\ UNCHANGED <<gens, call>>

(***************************************************************************)
(* mirror_mask(value), the pure-Python path (an int argument takes it on   *)
(* either backend).                                                        *)
(***************************************************************************)
bytes_needed == (width + 7) \div 8

RECURSIVE MirrorLoop(_, _, _)
MirrorLoop(value, i, result) ==
    IF i >= bytes_needed THEN result
    ELSE LET byte == BitAnd(Shr(value, i * 8), 255)
             rev  == _mirror_lut[byte]
         IN  MirrorLoop(value, i + 1,
                        BitOr(result, Shl(rev, (bytes_needed - 1 - i) * 8)))

\* mirror_mask without the final shift that drops the padding bits.
MirrorNoShift(value) == MirrorLoop(value, 0, 0)

mirror_mask(value) == Shr(MirrorLoop(value, 0, 0), bytes_needed * 8 - width)

(***************************************************************************)
(* visualize(value): format(int(value) & self.mask, f'0{self.width}b').    *)
(* Strings are sequences of the characters "0" and "1".                    *)
(***************************************************************************)
\* format(n, 'b'): the binary digits of n, most significant first, "0" for 0.
RECURSIVE BinDigits(_)
BinDigits(n) ==
    IF n < 2 THEN <<IF n = 1 THEN "1" ELSE "0">>
    ELSE Append(BinDigits(n \div 2), IF n % 2 = 1 THEN "1" ELSE "0")

\* The '0<w>' part of the format: zeros on the left up to w characters.
ZeroPad(s, w) ==
    IF Len(s) >= w THEN s ELSE [k \in 1..(w - Len(s)) |-> "0"] \o s

\* visualize without the mask.
VisualizeNoMask(value) == ZeroPad(BinDigits(value), width)

visualize(value) == ZeroPad(BinDigits(BitAnd(value, mask)), width)

(***************************************************************************)
(* The numpy backend's arrays (dtype uint64).                              *)
(***************************************************************************)
\* np.left_shift(np.uint64(1), np.arange(self.width, dtype=np.uint64))
NpSweepOnes == [k \in 1..width |-> Shl(1, k - 1)]

\* np.bitwise_xor(self.mask, ones)
NpSweepZeros == [k \in 1..width |-> BitXor(mask, NpSweepOnes[k])]

\* np.arange(0, stop, step) for step >= 1.
NpArange(stop, step) ==
    [k \in 1..((stop + step - 1) \div step) |-> (k - 1) * step]

\* The loop filling arr in toggle_sparse: idx (0-based) runs over indices.
RECURSIVE NpToggleLoop(_, _, _)
NpToggleLoop(indices, idx, arr) ==
    IF idx >= Len(indices) THEN arr
    ELSE LET bit == Shl(1, indices[idx + 1])
         IN  NpToggleLoop(indices, idx + 1,
                          Append(arr, IF idx > 0 THEN BitOr(arr[idx], bit) ELSE bit))

NpToggleSparse(step) == NpToggleLoop(NpArange(width, step), 0, <<>>)

\* radii, left, right and their bitwise_or in scan_patterns.
NpScanPatterns ==
    LET center == width \div 2
    IN  [k \in 1..(center + 1) |->
            LET radius == k - 1
                left   == Shl(1, center - radius)
                right  == IF center + radius < width
                          THEN Shl(1, center + radius) ELSE 0
            IN  BitOr(left, right)]

(***************************************************************************)
(* Generator objects.  A record is the frame of one generator (or, with    *)
(* status "array", an array a call returned):                              *)
(*   status  "none" no object, "created" not started, "suspended" at a     *)
(*           yield, "done" StopIteration raised, "error" an exception      *)
(*           left the frame, "array" an ndarray;                           *)
(*   i       the next index of the frame's range iterator;                 *)
(*   stop    the stop of that range;                                       *)
(*   val     toggle_sparse's val;                                          *)
(*   out     the values yielded so far;                                    *)
(*   ret     the array returned (the array itself, or StopIteration's      *)
(*           value);                                                       *)
(*   exc     the exception that ended the frame.                           *)
(***************************************************************************)
NoGen ==
    [op |-> "", step |-> 0, status |-> "none", i |-> 0, stop |-> 0,
     val |-> 0, out |-> <<>>, ret |-> <<>>, exc |-> ""]

\* sweep_ones() on a brush of backend b: an array, or a generator expression
\* over range(self.width), the range built at the call.
sweep_ones(b) ==
    IF b = "numpy"
    THEN [NoGen EXCEPT !.op = "sweep_ones", !.status = "array", !.ret = NpSweepOnes]
    ELSE [NoGen EXCEPT !.op = "sweep_ones", !.status = "created", !.stop = width]

sweep_zeros(b) ==
    IF b = "numpy"
    THEN [NoGen EXCEPT !.op = "sweep_zeros", !.status = "array", !.ret = NpSweepZeros]
    ELSE [NoGen EXCEPT !.op = "sweep_zeros", !.status = "created", !.stop = width]

\* toggle_sparse and scan_patterns hold a yield: on either backend a call runs
\* none of the body and returns a generator object.
toggle_sparse(b, step) ==
    [NoGen EXCEPT !.op = "toggle_sparse", !.step = step, !.status = "created"]

scan_patterns(b) ==
    [NoGen EXCEPT !.op = "scan_patterns", !.status = "created"]

\* next() on the generator expression of sweep_ones.
SweepOnesNext(b, g) ==
    IF g.i < g.stop
    THEN [g EXCEPT !.status = "suspended", !.i = @ + 1,
                   !.out = Append(@, Shl(1, g.i))]
    ELSE [g EXCEPT !.status = "done"]

\* next() on the generator expression of sweep_zeros.
SweepZerosNext(b, g) ==
    IF g.i < g.stop
    THEN [g EXCEPT !.status = "suspended", !.i = @ + 1,
                   !.out = Append(@, BitXor(mask, Shl(1, g.i)))]
    ELSE [g EXCEPT !.status = "done"]

\* i in range(0, stop, step), the next index being i.
InRange(i, stop, step) == IF step > 0 THEN i < stop ELSE i > stop

\* One turn of "for i in range(0, self.width, step)".
ToggleSparseLoop(g) ==
    IF InRange(g.i, g.stop, g.step)
    THEN LET v == BitOr(g.val, Shl(1, g.i))
         IN  [g EXCEPT !.status = "suspended", !.i = @ + g.step,
                       !.val = v, !.out = Append(@, v)]
    ELSE [g EXCEPT !.status = "done"]

\* next() on a toggle_sparse generator.  The first next() runs the body from
\* its top: on numpy the array is built and returned, which ends the
\* generator with no value yielded; a zero step raises.
ToggleSparseNext(b, g) ==
    IF g.status = "created"
    THEN IF b = "numpy"
         THEN IF g.step = 0
              THEN [g EXCEPT !.status = "error", !.exc = "ZeroDivisionError"]
              ELSE [g EXCEPT !.status = "done",
                             !.ret = IF g.step > 0 THEN NpToggleSparse(g.step)
                                     ELSE <<>>]
         ELSE IF g.step = 0
              THEN [g EXCEPT !.status = "error", !.exc = "ValueError"]
              ELSE ToggleSparseLoop([g EXCEPT !.val = 0, !.i = 0, !.stop = width])
    ELSE ToggleSparseLoop(g)

\* The turn with the right term never dropped.
ScanPatternsLoopNoGuard(g) ==
    IF g.i < g.stop
    THEN LET center == width \div 2
             radius == g.i
             left   == Shl(1, center - radius)
             right  == Shl(1, center + radius)
         IN  [g EXCEPT !.status = "suspended", !.i = @ + 1,
                       !.out = Append(@, BitOr(left, right))]
    ELSE [g EXCEPT !.status = "done"]

\* The turn adding the two terms instead of OR-ing them.
ScanPatternsLoopAdd(g) ==
    IF g.i < g.stop
    THEN LET center == width \div 2
             radius == g.i
             left   == Shl(1, center - radius)
             right  == IF center + radius < width
                       THEN Shl(1, center + radius) ELSE 0
         IN  [g EXCEPT !.status = "suspended", !.i = @ + 1,
                       !.out = Append(@, left + right)]
    ELSE [g EXCEPT !.status = "done"]

\* One turn of "for radius in range(center + 1)".
ScanPatternsLoop(g) ==
    IF g.i < g.stop
    THEN LET center == width \div 2
             radius == g.i
             left   == Shl(1, center - radius)
             right  == IF center + radius < width
                       THEN Shl(1, center + radius) ELSE 0
         IN  [g EXCEPT !.status = "suspended", !.i = @ + 1,
                       !.out = Append(@, BitOr(left, right))]
    ELSE [g EXCEPT !.status = "done"]

\* next() on a scan_patterns generator.
ScanPatternsNext(b, g) ==
    IF g.status = "created"
    THEN IF b = "numpy"
         THEN [g EXCEPT !.status = "done", !.ret = NpScanPatterns]
         ELSE ScanPatternsLoop([g EXCEPT !.i = 0, !.stop = (width \div 2) + 1])
    ELSE ScanPatternsLoop(g)

\* next(g) on a brush of backend b.
GenNext(b, g) ==
    CASE g.op = "sweep_ones"    -> SweepOnesNext(b, g)
      [] g.op = "sweep_zeros"   -> SweepZerosNext(b, g)
      [] g.op = "toggle_sparse" -> ToggleSparseNext(b, g)
      [] g.op = "scan_patterns" -> ScanPatternsNext(b, g)

Live(g) == g.status \in {"created", "suspended"}

\* The generator consumed to its end, as "for _ in result" does.
RECURSIVE Exhaust(_, _)
Exhaust(b, g) == IF Live(g) THEN Exhaust(b, GenNext(b, g)) ELSE g

\* What iterating over the object gives: an array's elements, a generator's
\* yielded values.
Elements(g) == IF g.status = "array" THEN g.ret ELSE g.out

(***************************************************************************)
(* Spec: one brush and the generator objects its caller holds, advanced in *)
(* any interleaving.  A slot takes a new object once its generator is      *)
(* exhausted (the caller consumes every generator to its end).             *)
(***************************************************************************)
Slots == 1..NumGens

StepInputs == -1..MaxStep

NoCall ==
    [op |-> "", arg |-> 0, status |-> "", seq |-> <<>>, ret |-> <<>>,
     result |-> 0, mid |-> 0, text |-> <<>>, twice |-> FALSE]

Init ==
    /\ pc = "new"
    /\ exc = ""
    /\ width = 0
    /\ mask = 0
    /\ backend = ""
    /\ _mirror_lut = NoLut
    /\ gens = [s \in Slots |-> NoGen]
    /\ call = NoCall

\* gens[s] = brush.sweep_ones()
SweepOnes(s) ==
    /\ pc = "ready"
    /\ ~Live(gens[s])
    /\ gens' = [gens EXCEPT ![s] = sweep_ones(backend)]
    /\ UNCHANGED <<engine, call>>

\* gens[s] = brush.sweep_zeros()
SweepZeros(s) ==
    /\ pc = "ready"
    /\ ~Live(gens[s])
    /\ gens' = [gens EXCEPT ![s] = sweep_zeros(backend)]
    /\ UNCHANGED <<engine, call>>

\* gens[s] = brush.toggle_sparse(step)
ToggleSparse(s, step) ==
    /\ pc = "ready"
    /\ ~Live(gens[s])
    /\ gens' = [gens EXCEPT ![s] = toggle_sparse(backend, step)]
    /\ UNCHANGED <<engine, call>>

\* gens[s] = brush.scan_patterns()
ScanPatterns(s) ==
    /\ pc = "ready"
    /\ ~Live(gens[s])
    /\ gens' = [gens EXCEPT ![s] = scan_patterns(backend)]
    /\ UNCHANGED <<engine, call>>

\* A next() whose cursor is shared: the other started frames take it over.
AdvanceShared(s) ==
    /\ pc = "ready"
    /\ Live(gens[s])
    /\ LET n == GenNext(backend, gens[s])
       IN  gens' = [t \in Slots |->
                      IF t = s THEN n
                      ELSE IF gens[t].status = "suspended"
                           THEN [gens[t] EXCEPT !.i = n.i]
                           ELSE gens[t]]
    /\ UNCHANGED <<engine, call>>

\* next(gens[s]): only that generator's frame moves.
Advance(s) ==
    /\ pc = "ready"
    /\ Live(gens[s])
    /\ gens' = [gens EXCEPT ![s] = GenNext(backend, gens[s])]
    /\ UNCHANGED <<engine, call>>

Next ==
    \/ \E w \in -1..MaxGenWidth, b \in Backends : Construct(w, b)
    \/ \E s \in Slots : SweepOnes(s)
    \/ \E s \in Slots : SweepZeros(s)
    \/ \E s \in Slots, step \in StepInputs : ToggleSparse(s, step)
    \/ \E s \in Slots : ScanPatterns(s)
    \/ \E s \in Slots : Advance(s)

Spec == Init /\ [][Next]_vars

(***************************************************************************)
(* SpecCalls: one brush and whole calls on it.  A generator operation is   *)
(* consumed to its end, list(brush.op()); mirror_mask and visualize take   *)
(* an int.  The operations are pure, so a behaviour makes one call (and,   *)
(* for mirror_mask, feeds the result back once).                           *)
(***************************************************************************)
Min(a, b) == IF a < b THEN a ELSE b

\* The arguments tried at the current width: every value below
\* 2^MaxDenseBits, and over the positions 0 .. width+MaxHigh-1 every value
\* of one or two set bits and their complements within the width and
\* within all the positions.
ValueInputs ==
    LET top    == width + MaxHigh
        dense  == 0..(2^Min(top, MaxDenseBits) - 1)
        sparse == {2^i : i \in 0..(top - 1)}
                    \cup {2^i + 2^j : i \in 0..(top - 1), j \in 0..(top - 1)}
    IN  dense \cup sparse
          \cup {BitXor(v, 2^top - 1) : v \in sparse}
          \cup {BitXor(v, mask) : v \in sparse}

\* What list(g) leaves: the values, how the generator ended, its return.
Listed(g) ==
    LET d == Exhaust(backend, g)
    IN  [NoCall EXCEPT !.op = g.op, !.arg = g.step, !.status = d.status,
                       !.seq = Elements(d), !.ret = d.ret]

ListSweepOnes ==
    /\ pc = "ready"
    /\ call = NoCall
    /\ call' = Listed(sweep_ones(backend))
    /\ UNCHANGED <<engine, gens>>

ListSweepZeros ==
    /\ pc = "ready"
    /\ call = NoCall
    /\ call' = Listed(sweep_zeros(backend))
    /\ UNCHANGED <<engine, gens>>

ListToggleSparse(step) ==
    /\ pc = "ready"
    /\ call = NoCall
    /\ call' = Listed(toggle_sparse(backend, step))
    /\ UNCHANGED <<engine, gens>>

ListScanPatterns ==
    /\ pc = "ready"
    /\ call = NoCall
    /\ call' = Listed(scan_patterns(backend))
    /\ UNCHANGED <<engine, gens>>

\* m = brush.mirror_mask(value)
MirrorMask ==
    /\ pc = "ready"
    /\ call = NoCall
    /\ \E value \in ValueInputs :
          call' = [NoCall EXCEPT !.op = "mirror_mask", !.arg = value,
                                 !.result = mirror_mask(value)]
    /\ UNCHANGED <<engine, gens>>

\* brush.mirror_mask(m), m the result of the call before
MirrorMaskAgain ==
    /\ pc = "ready"
    /\ call.op = "mirror_mask"
    /\ ~call.twice
    /\ call' = [call EXCEPT !.twice = TRUE, !.mid = call.result,
                            !.result = mirror_mask(call.result)]
    /\ UNCHANGED <<engine, gens>>

\* brush.visualize(value)
Visualize ==
    /\ pc = "ready"
    /\ call = NoCall
    /\ \E value \in ValueInputs :
          call' = [NoCall EXCEPT !.op = "visualize", !.arg = value,
                                 !.text = visualize(value)]
    /\ UNCHANGED <<engine, gens>>

NextCalls ==
    \/ \E w \in -1..MaxWidth, b \in Backends : Construct(w, b)
    \/ ListSweepOnes
    \/ ListSweepZeros
    \/ \E step \in StepInputs : ListToggleSparse(step)
    \/ ListScanPatterns
    \/ MirrorMask
    \/ MirrorMaskAgain
    \/ Visualize

SpecCalls == Init /\ [][NextCalls]_vars

(***************************************************************************)
(* Properties.                                                             *)
(***************************************************************************)
GenOps == {"sweep_ones", "sweep_zeros", "toggle_sparse", "scan_patterns"}

\* value & ~mask == 0: no bit of v at or above the width.
WithinMask(v) == BitAnd(v, mask) = v

\* int(s, 2)
RECURSIVE ParseBase2(_)
ParseBase2(s) ==
    IF s = <<>> THEN 0
    ELSE 2 * ParseBase2(SubSeq(s, 1, Len(s) - 1))
           + (IF s[Len(s)] = "1" THEN 1 ELSE 0)

\* The object a fresh call of g's operation with g's arguments returns.
Fresh(b, g) ==
    CASE g.op = "sweep_ones"    -> sweep_ones(b)
      [] g.op = "sweep_zeros"   -> sweep_zeros(b)
      [] g.op = "toggle_sparse" -> toggle_sparse(b, g.step)
      [] g.op = "scan_patterns" -> scan_patterns(b)

IsPrefix(s, t) == Len(s) <= Len(t) /\ s = SubSeq(t, 1, Len(s))

\* C1: on the python backend, for every width >= 1 and every x with
\* x & mask = x, mirror_mask(mirror_mask(x)) = x.
MirrorInvolution ==
    (pc = "ready" /\ backend = "python" /\ width >= 1
       /\ call.op = "mirror_mask" /\ call.twice /\ WithinMask(call.arg))
    => call.result = call.arg

\* C1's case: a masked argument of a width of two bytes, not byte-aligned,
\* that is not its own mirror image, mirrored twice.
MirrorInvolutionWitness ==
    /\ pc = "ready" /\ backend = "python" /\ width = 12
    /\ call.op = "mirror_mask" /\ call.twice /\ WithinMask(call.arg)
    /\ call.arg > 255 /\ call.mid # call.arg

\* C2: for every width >= 1 and every value >= 0, mirror_mask(value) is the
\* width-bit reversal of value & mask: bit i of the result is bit
\* width-1-i of value for 0 <= i < width, the result has no other bit, and
\* the bits of value at positions >= width change nothing.
MirrorReversesBits ==
    (pc = "ready" /\ width >= 1 /\ call.op = "mirror_mask" /\ ~call.twice)
    => /\ \A i \in 0..(width - 1) :
             Bit(call.result, i) = Bit(call.arg, width - 1 - i)
       /\ Shr(call.result, width) = 0
       /\ call.result = mirror_mask(BitAnd(call.arg, mask))

\* C2's case: a width that is not byte-aligned, a value with a bit in the
\* padding (13), a bit beyond the padded bytes (16) and a mixed low part.
MirrorReversesBitsWitness ==
    /\ pc = "ready" /\ width = 12
    /\ call.op = "mirror_mask" /\ ~call.twice
    /\ Bit(call.arg, 13) = 1 /\ Bit(call.arg, 16) = 1
    /\ Bit(call.arg, 0) = 1 /\ Bit(call.arg, 1) = 0
    /\ call.result # 0

\* C3 as the specification states it: at width 8 scan_patterns yields
\* [16, 10, 20, 40, 65].
ScanWidth8AsStated ==
    (pc = "ready" /\ backend = "python" /\ width = 8
       /\ call.op = "scan_patterns")
    => call.seq = <<16, 10, 20, 40, 65>>

\* C3 amended: at width 8 (center 4) scan_patterns on the python backend
\* yields [16, 40, 68, 130, 1]; on the numpy backend the call returns a
\* generator that yields nothing and whose return value is that array.
ScanWidth8 ==
    (pc = "ready" /\ width = 8 /\ call.op = "scan_patterns")
    => /\ call.status = "done"
       /\ backend = "python" => call.seq = <<16, 40, 68, 130, 1>>
       /\ backend = "numpy"  => /\ call.seq = <<>>
                                /\ call.ret = <<16, 40, 68, 130, 1>>

\* C3's case: scan_patterns consumed to its end at width 8.
ScanWidth8Witness ==
    /\ pc = "ready" /\ backend = "python" /\ width = 8
    /\ call.op = "scan_patterns" /\ call.status = "done" /\ Len(call.seq) = 5

\* C4 as stated, on the python backend: on a brush of a valid width,
\* toggle_sparse with a step <= 0 ends in an error and never completes
\* normally.
ToggleSparseRejectsBadStep ==
    (pc = "ready" /\ backend = "python" /\ width >= 1)
    => \A s \in Slots :
          (gens[s].op = "toggle_sparse" /\ gens[s].step <= 0)
          => gens[s].status # "done"

\* C5 as stated: a width that is zero, negative or above 64 gives no brush.
ConstructRejectsBadWidth ==
    (pc # "new" /\ (width <= 0 \/ width > 64)) => pc = "failed"

\* C6: for every width >= 1, every value of sweep_ones, sweep_zeros,
\* toggle_sparse(step >= 1) and scan_patterns, and every result of
\* mirror_mask for any value >= 0, satisfies value & ~mask = 0.
Masking ==
    (pc = "ready" /\ width >= 1)
    => /\ (call.op \in GenOps /\ (call.op = "toggle_sparse" => call.arg >= 1))
          => \A k \in 1..Len(call.seq) : WithinMask(call.seq[k])
       /\ call.op = "mirror_mask" => WithinMask(call.result)

\* C6's case: a generator value with the right term dropped at the top
\* radius of an even width.
MaskingWitness ==
    /\ pc = "ready" /\ backend = "python" /\ width = 8
    /\ call.op = "scan_patterns" /\ Len(call.seq) = 5
    /\ call.seq[5] = 1 /\ call.seq[4] = 130

\* The sequence the python backend yields for the operation and argument of
\* the last call, at the same width.
PythonSeq ==
    Elements(Exhaust("python", Fresh("python", [NoGen EXCEPT !.op = call.op,
                                                             !.step = call.arg])))

\* C7 as stated: for every width >= 1 and step >= 1, what the numpy backend
\* returns for sweep_ones, sweep_zeros, toggle_sparse(step) and
\* scan_patterns has the elements, in number, order and value, that the
\* python backend yields.
NumpyMatchesPython ==
    (pc = "ready" /\ backend = "numpy" /\ width >= 1 /\ call.op \in GenOps
       /\ (call.op = "toggle_sparse" => call.arg >= 1))
    => call.seq = PythonSeq

\* What holds of the numpy backend: the two sweeps return the python
\* backend's values, and the arrays built by toggle_sparse and scan_patterns
\* hold them too, but as the return value of a generator that yields nothing.
NumpyArraysMatchPython ==
    (pc = "ready" /\ backend = "numpy" /\ width >= 1 /\ call.op \in GenOps
       /\ (call.op = "toggle_sparse" => call.arg >= 1))
    => /\ call.ret = PythonSeq
       /\ call.op \in {"sweep_ones", "sweep_zeros"} => call.seq = PythonSeq
       /\ call.op \in {"toggle_sparse", "scan_patterns"} => call.seq = <<>>

\* C8 as stated: for every width >= 1 and step >= 1, toggle_sparse(step)
\* yields ceil(width / step) values, the first 1, each later one the one
\* before OR-ed with the single new bit 1 << (k*step): strictly increasing,
\* each a strict bit-superset of the one before.
ToggleSparseSequence ==
    (pc = "ready" /\ width >= 1 /\ call.op = "toggle_sparse" /\ call.arg >= 1)
    => /\ Len(call.seq) = (width + call.arg - 1) \div call.arg
       /\ call.seq[1] = 1
       /\ \A k \in 2..Len(call.seq) :
             LET bit == Shl(1, (k - 1) * call.arg)
             IN  /\ call.seq[k] = BitOr(call.seq[k - 1], bit)
                 /\ BitAnd(call.seq[k - 1], bit) = 0
                 /\ call.seq[k] > call.seq[k - 1]
                 /\ BitAnd(call.seq[k], call.seq[k - 1]) = call.seq[k - 1]
       /\ (width = 9 /\ call.arg = 3) => call.seq = <<1, 9, 73>>

\* C8 on the python backend alone.
ToggleSparseSequencePython ==
    backend = "python" => ToggleSparseSequence

\* C10: for every width >= 1 and every x >= 0, visualize(x) is a string of
\* exactly width characters, each "0" or "1", most significant bit first,
\* and parsing it as base 2 gives x & mask.
VisualizeRoundTrip ==
    (pc = "ready" /\ width >= 1 /\ call.op = "visualize")
    => /\ Len(call.text) = width
       /\ \A k \in 1..Len(call.text) :
             /\ call.text[k] \in {"0", "1"}
             /\ (call.text[k] = "1") <=> (Bit(call.arg, width - k) = 1)
       /\ ParseBase2(call.text) = BitAnd(call.arg, mask)

\* C10's case: a value with bits above the width, a leading zero to pad and
\* a set lowest bit, at a width that is not byte-aligned.
VisualizeRoundTripWitness ==
    /\ pc = "ready" /\ width = 12 /\ call.op = "visualize"
    /\ call.arg > mask /\ call.text[1] = "0" /\ call.text[12] = "1"

\* What one generator object is against the same call consumed alone: while
\* live it has yielded a prefix of that sequence, and once ended it is the
\* object the lone run ends as (same values, same end, same return).
AsAlone(g) ==
    LET alone == Exhaust(backend, Fresh(backend, g))
    IN  /\ Live(g) => /\ IsPrefix(g.out, alone.out)
                      /\ g.status = "suspended" => g.out # <<>>
        /\ ~Live(g) => g = alone

\* C9: generators are finite, restartable and share no cursor: any number
\* of generators of one brush, advanced in any interleaving, each end and
\* each yield the sequence they yield when consumed alone, a later call of
\* the same operation with the same arguments yields it again, and width,
\* mask, backend and mirror table never change.  Finite: a step that
\* changes a live generator ends it or makes it yield one more value of its
\* lone sequence, which is finite, and changes no other generator.
GeneratorsIndependent ==
    /\ [](pc = "ready" =>
            \A s \in Slots : gens[s].status # "none" => AsAlone(gens[s]))
    /\ [][pc = "ready" => UNCHANGED <<width, mask, backend, _mirror_lut>>]_vars
    /\ [][\A s \in Slots :
            (Live(gens[s]) /\ gens'[s] # gens[s])
            => /\ \/ ~Live(gens'[s])
                  \/ Len(gens'[s].out) = Len(gens[s].out) + 1
               /\ \A t \in Slots \ {s} : gens'[t] = gens[t]]_vars

\* C9's case: one generator run to its end while another, of a different
\* operation, is part-way through its own sequence.
GeneratorsIndependentWitness ==
    /\ pc = "ready" /\ backend = "python" /\ width >= 4
    /\ gens[1].op = "toggle_sparse" /\ gens[1].status = "done"
    /\ Len(gens[1].out) >= 2
    /\ gens[2].op = "scan_patterns" /\ gens[2].status = "suspended"
    /\ Len(gens[2].out) = 2

=============================================================================
